---------------------------- MODULE Spec2Model ----------------------------
(***************************************************************************)
(* HUDT audition platform: the applications / admins tables and the HTTP   *)
(* handlers that read and write them.                                      *)
(*                                                                         *)
(* Every handler is an async function; the event loop runs it up to its    *)
(* next `await`, so one action of the model is one storage call together   *)
(* with the synchronous code that follows it up to the next await.  The    *)
(* requests of a behaviour are served concurrently (Spec) or one at a time *)
(* (SeqSpec); the admin router hands each request to the first route that  *)
(* matches it.                                                             *)
(***************************************************************************)
EXTENDS Integers, Sequences, FiniteSets, TLC

VARIABLES
  apps,      \* applications table: id -> row
  nextId,    \* BIGSERIAL sequence of applications.id
  admins,    \* admins table: username -> row
  now,       \* wall clock (new Date())
  sent,      \* e-mails handed to sendEmail: set of [app, to, template]
  rq,        \* requests: request -> its handler's position and locals (and, as
             \* history variable, snap: the table when a bulk update began)
  changes,   \* history variable: id -> number of requests that changed its status
  lastIssued \* history variable: year -> largest suffix the allocator returned

vars == <<apps, nextId, admins, now, sent, rq, changes, lastIssued>>

---------------------------------------------------------------------------
(* Bounds of the model *)

MaxClock == 1         \* the clock runs 0..MaxClock
TicksPerYear == 1     \* clock ticks in one calendar year

Procs == {"r1", "r2"}            \* the requests of a behaviour, each served once

\* Sequence numbers of the rows an earlier period of operation left in the
\* table (every other row of that time deleted by an admin).
SeedSeqs == {{}, {1, 2}, {999}}

Emails == {"e1", "e2"}
Phones == {"p1", "p2"}
Names == {"n1"}

---------------------------------------------------------------------------
(* Strings of decimal digits, as JavaScript and Postgres treat them *)

RECURSIVE toString(_)
\* Number.prototype.toString(): the decimal digits of n >= 0, no leading zero
toString(n) == IF n < 10 THEN <<n>> ELSE Append(toString(n \div 10), n % 10)

RECURSIVE padStart(_, _)
\* String.prototype.padStart(w, '0'): left-pads to length w, never truncates
padStart(ds, w) == IF Len(ds) >= w THEN ds ELSE padStart(<<0>> \o ds, w)

RECURSIVE parseInt(_)
\* parseInt(s, 10) of a string of digits
parseInt(ds) == IF ds = <<>> THEN 0
                ELSE 10 * parseInt(SubSeq(ds, 1, Len(ds) - 1)) + ds[Len(ds)]

RECURSIVE LexLess(_, _)
\* a < b in the text order of ORDER BY: character by character, a proper
\* prefix before its extensions
LexLess(a, b) ==
  IF a = <<>> THEN b # <<>>
  ELSE IF b = <<>> THEN FALSE
  ELSE IF Head(a) # Head(b) THEN Head(a) < Head(b)
  ELSE LexLess(Tail(a), Tail(b))

YearOf(t) == t \div TicksPerYear        \* new Date().getFullYear()
Years == 0..YearOf(MaxClock)

\* The text `HUDT-${year}-${seq}`: the year and the digits of the suffix
RefText(year, ds) == [year |-> year, seq |-> ds]
NoRef == [year |-> 0, seq |-> <<>>]

PadWidth == 3

---------------------------------------------------------------------------
(* Reference number allocator *)

\* .like('ref_number', `HUDT-${year}-%`)
RefsOfYear(tbl, year) ==
  {tbl[i].ref_number : i \in {j \in DOMAIN tbl : tbl[j].ref_number.year = year}}

\* .order('ref_number', {ascending: false}).limit(1).single()
LastRefOfYear(tbl, year) ==
  LET rs == RefsOfYear(tbl, year)
  IN IF rs = {} THEN NoRef
     ELSE CHOOSE r \in rs : \A o \in rs : o = r \/ LexLess(o.seq, r.seq)

\* generateRefNumber with the storage client present (without it intake
\* answers 500 before it allocates)
generateRefNumber(tbl, year) ==
  LET result == LastRefOfYear(tbl, year)
      nextNumber == IF result # NoRef THEN parseInt(result.seq) + 1 ELSE 1
  IN RefText(year, padStart(toString(nextNumber), PadWidth))

---------------------------------------------------------------------------
(* Tables *)

Admin == "admin"                       \* req.admin.username of the bearer token
AdminMail == "Mofosgang123@gmail.com"

HistoryEntry(status, ts, by) == [status |-> status, timestamp |-> ts, updatedBy |-> by]

\* The row intake inserts.  Of the profile columns only full_name is kept:
\* the others are written once at intake and read by the export alone
\* (ExportRow adds them).
NewRow(ref, name, email, phone, ts) ==
  [ref_number |-> ref, full_name |-> name, email |-> email, phone |-> phone,
   status |-> "Submitted", submitted_at |-> ts, updated_at |-> ts,
   status_history |-> <<HistoryEntry("Submitted", ts, "system")>>]

\* Faulty variant of UniqueViolation: only ref_number is declared UNIQUE
UniqueRefNumberOnly(tbl, row) ==
  \E i \in DOMAIN tbl : tbl[i].ref_number = row.ref_number

\* Faulty variant of UniqueViolation: ref_number is not declared UNIQUE
UniqueEmailPhoneOnly(tbl, row) ==
  \E i \in DOMAIN tbl : tbl[i].email = row.email \/ tbl[i].phone = row.phone

\* ref_number TEXT UNIQUE, email TEXT UNIQUE, phone TEXT UNIQUE
UniqueViolation(tbl, row) ==
  \E i \in DOMAIN tbl : \/ tbl[i].ref_number = row.ref_number
                        \/ tbl[i].email = row.email
                        \/ tbl[i].phone = row.phone

\* status TEXT NOT NULL
NotNullViolation(status) == status = "#null"

\* A table holding exactly the row (id |-> row)
OneRow(id, row) == [i \in {id} |-> row]

\* The table with row id put or replaced
Put(tbl, id, row) == [i \in DOMAIN tbl \cup {id} |-> IF i = id THEN row ELSE tbl[i]]

\* The table without row id
Drop(tbl, id) == [i \in DOMAIN tbl \ {id} |-> tbl[i]]

\* The table an earlier period of operation leaves behind: intakes in the
\* first year, numbered from 1, of which the rows numbered in S remain.  The
\* even-numbered applicants used e8/p8, the odd-numbered ones e9/p9.
SeedRow(s) ==
  NewRow(RefText(0, padStart(toString(s), PadWidth)), "n0",
         IF s % 2 = 0 THEN "e8" ELSE "e9", IF s % 2 = 0 THEN "p8" ELSE "p9", 0)
SeedTable(S) == [s \in S |-> SeedRow(s)]
SeedNextId(S) == IF S = {} THEN 1 ELSE 1 + CHOOSE s \in S : \A t \in S : t <= s

\* initDatabase: the default admin
DefaultAdmins == [u \in {Admin} |-> [password |-> "hudt2026admin", last_login |-> -1]]

---------------------------------------------------------------------------
(* Requests *)

NoIdent == [tag |-> "none", ref |-> NoRef, phone |-> ""]
NoResp == [status |-> 0, code |-> "", body |-> <<>>]
NoQuery == [status |-> "", department |-> "", level |-> ""]

Idle == [kind |-> "none", pc |-> "idle", resp |-> NoResp,
         email |-> "", phone |-> "", name |-> "", year |-> 0, ref |-> NoRef,
         ts |-> 0, id |-> 0, ids |-> <<>>, i |-> 0, status |-> "",
         hist |-> <<>>, tmpl |-> "", snap |-> << >>, ident |-> NoIdent,
         user |-> "", pass |-> "", seg |-> "", mailFailed |-> FALSE,
         query |-> NoQuery]

Free(p) == rq[p].pc = "idle"

Resp(status, code) == [status |-> status, code |-> code, body |-> <<>>]
RespBody(status, code, body) == [status |-> status, code |-> code, body |-> body]

\* res.status(..).json(..): the handler ends
\* (the request's inputs stay on record, its locals are dropped)
Reply(p, r, resp) ==
  rq' = [rq EXCEPT ![p] = [Idle EXCEPT !.kind = r.kind, !.pc = "done", !.resp = resp,
                                       !.email = r.email, !.phone = r.phone,
                                       !.name = r.name, !.id = r.id, !.ids = r.ids,
                                       !.status = r.status, !.ident = r.ident,
                                       !.user = r.user, !.pass = r.pass,
                                       !.seg = r.seg, !.mailFailed = r.mailFailed,
                                       !.query = r.query]]
Goto(p, r, pc) == rq' = [rq EXCEPT ![p] = [r EXCEPT !.pc = pc]]

Init ==
  /\ \E S \in SeedSeqs : /\ apps = SeedTable(S) /\ nextId = SeedNextId(S)
                         /\ changes = [i \in S |-> 0]
                         /\ lastIssued = [y \in Years |->
                                            IF y = 0 THEN SeedNextId(S) - 1 ELSE 0]
  /\ admins = DefaultAdmins
  /\ now = 0
  /\ sent = {}
  /\ rq = [p \in Procs |-> Idle]

Tick ==
  /\ now < MaxClock
  /\ now' = now + 1
  /\ UNCHANGED <<apps, nextId, admins, sent, rq, changes, lastIssued>>

---------------------------------------------------------------------------
(* POST /api/applications *)

ExistsEmail(tbl, email) == \E i \in DOMAIN tbl : tbl[i].email = email
ExistsPhone(tbl, phone) == \E i \in DOMAIN tbl : tbl[i].phone = phone

\* validation, then the duplicate-email query
IntakeBegin(p, valid, name, email, phone) ==
  /\ Free(p)
  /\ LET r == [Idle EXCEPT !.kind = "intake", !.name = name, !.email = email, !.phone = phone]
     IN IF ~valid THEN Reply(p, r, Resp(400, "VALIDATION_ERROR"))
        ELSE IF ExistsEmail(apps, email) THEN Reply(p, r, Resp(409, "DUPLICATE_EMAIL"))
        ELSE Goto(p, r, "checkPhone")
  /\ UNCHANGED <<apps, nextId, admins, now, sent, changes, lastIssued>>

\* the duplicate-phone query; generateRefNumber then reads the year
IntakeCheckPhone(p) ==
  /\ rq[p].kind = "intake" /\ rq[p].pc = "checkPhone"
  /\ IF ExistsPhone(apps, rq[p].phone) THEN Reply(p, rq[p], Resp(409, "DUPLICATE_PHONE"))
     ELSE Goto(p, [rq[p] EXCEPT !.year = YearOf(now)], "genRef")
  /\ UNCHANGED <<apps, nextId, admins, now, sent, changes, lastIssued>>

\* history variable: the allocator returned ref
Issued(ref) ==
  lastIssued' = [lastIssued EXCEPT ![ref.year] =
                   IF parseInt(ref.seq) > @ THEN parseInt(ref.seq) ELSE @]

\* the allocator's query; the handler then reads the clock
IntakeGenRef(p) ==
  /\ rq[p].kind = "intake" /\ rq[p].pc = "genRef"
  /\ LET ref == generateRefNumber(apps, rq[p].year)
     IN /\ Goto(p, [rq[p] EXCEPT !.ref = ref, !.ts = now], "insert")
        /\ Issued(ref)
  /\ UNCHANGED <<apps, nextId, admins, now, sent, changes>>

\* the insert; a constraint violation is thrown and answered 500
IntakeInsert(p) ==
  /\ rq[p].kind = "intake" /\ rq[p].pc = "insert"
  /\ LET r == rq[p]
         row == NewRow(r.ref, r.name, r.email, r.phone, r.ts)
     IN /\ nextId' = nextId + 1
        /\ IF UniqueViolation(apps, row)
           THEN /\ Reply(p, r, Resp(500, "SERVER_ERROR"))
                /\ UNCHANGED <<apps, changes>>
           ELSE /\ apps' = Put(apps, nextId, row)
                /\ changes' = Put(changes, nextId, 0)
                /\ Goto(p, [r EXCEPT !.id = nextId], "mailApplicant")
  /\ UNCHANGED <<admins, now, sent, lastIssued>>

Mail(app, to, template) == [app |-> app, to |-> to, template |-> template]

\* What becomes of an e-mail handed to sendEmail
MailOutcomes == {"delivered", "failed"}

\* sendEmail of utils/emailService.js, as far as its caller sees it: a failed
\* delivery is logged and the call returns; it does not throw
Throws(outcome) == FALSE

\* history variable: the request with the outcome of its e-mail on record
Logged(r, outcome) == [r EXCEPT !.mailFailed = @ \/ outcome = "failed"]

\* Faulty variant of IntakeMailApplicant: a failed confirmation e-mail takes
\* the inserted row back and answers 500
IntakeMailApplicantRollback(p) ==
  /\ rq[p].kind = "intake" /\ rq[p].pc = "mailApplicant"
  /\ sent' = sent \cup {Mail(rq[p].id, rq[p].email, "application_received")}
  /\ \E outcome \in MailOutcomes :
       IF outcome = "failed"
       THEN /\ apps' = Drop(apps, rq[p].id) /\ changes' = Drop(changes, rq[p].id)
            /\ Reply(p, Logged(rq[p], outcome), Resp(500, "SERVER_ERROR"))
       ELSE /\ Goto(p, rq[p], "mailAdmin") /\ UNCHANGED <<apps, changes>>
  /\ UNCHANGED <<nextId, admins, now, lastIssued>>

IntakeMailApplicant(p) ==
  /\ rq[p].kind = "intake" /\ rq[p].pc = "mailApplicant"
  /\ sent' = sent \cup {Mail(rq[p].id, rq[p].email, "application_received")}
  /\ \E outcome \in MailOutcomes :
       IF Throws(outcome) THEN Reply(p, Logged(rq[p], outcome), Resp(500, "SERVER_ERROR"))
       ELSE Goto(p, Logged(rq[p], outcome), "mailAdmin")
  /\ UNCHANGED <<apps, nextId, admins, now, changes, lastIssued>>

IntakeMailAdmin(p) ==
  /\ rq[p].kind = "intake" /\ rq[p].pc = "mailAdmin"
  /\ sent' = sent \cup {Mail(rq[p].id, AdminMail, "admin_new_application")}
  /\ \E outcome \in MailOutcomes :
       IF Throws(outcome) THEN Reply(p, Logged(rq[p], outcome), Resp(500, "SERVER_ERROR"))
       ELSE Reply(p, Logged(rq[p], outcome), RespBody(201, "", <<rq[p].ref>>))
  /\ UNCHANGED <<apps, nextId, admins, now, changes, lastIssued>>

Intake(p) ==
  \/ \E valid \in BOOLEAN, name \in Names, email \in Emails, phone \in Phones :
       IntakeBegin(p, valid, name, email, phone)
  \/ IntakeCheckPhone(p)
  \/ IntakeGenRef(p)
  \/ IntakeInsert(p)
  \/ IntakeMailApplicant(p)
  \/ IntakeMailAdmin(p)

---------------------------------------------------------------------------
(* GET /api/applications/status/:identifier *)

\* An identifier is the text of a reference number or of a phone number; the
\* two never coincide (a phone number holds no letters).
RefIdent(ref) == [tag |-> "ref", ref |-> ref, phone |-> ""]
PhoneIdent(phone) == [tag |-> "phone", ref |-> NoRef, phone |-> phone]

\* .eq('ref_number', identifier).single(): the matching row's id, 0 for none
FindByRef(tbl, ident) ==
  LET m == {i \in DOMAIN tbl : ident.tag = "ref" /\ tbl[i].ref_number = ident.ref}
  IN IF Cardinality(m) = 1 THEN CHOOSE i \in m : TRUE ELSE 0

\* Faulty variant of FindByPhone: the second query filters on the email column
FindByEmailColumn(tbl, ident) ==
  LET m == {i \in DOMAIN tbl : ident.tag = "phone" /\ tbl[i].email = ident.phone}
  IN IF Cardinality(m) = 1 THEN CHOOSE i \in m : TRUE ELSE 0

\* .eq('phone', identifier).single()
FindByPhone(tbl, ident) ==
  LET m == {i \in DOMAIN tbl : ident.tag = "phone" /\ tbl[i].phone = ident.phone}
  IN IF Cardinality(m) = 1 THEN CHOOSE i \in m : TRUE ELSE 0

\* parsedApplication
Projection(row) ==
  [refNumber |-> row.ref_number, fullName |-> row.full_name,
   status |-> row.status, submittedAt |-> row.submitted_at]

\* The response a status lookup gives
LookupReply(tbl, id) ==
  IF id # 0 THEN RespBody(200, "", <<Projection(tbl[id])>>) ELSE Resp(404, "NOT_FOUND")

\* The handler run against one table: reference number first, then phone
statusLookup(tbl, ident) ==
  LET application == FindByRef(tbl, ident)
  IN LookupReply(tbl, IF application # 0 THEN application ELSE FindByPhone(tbl, ident))

LookupBegin(p, ident) ==
  /\ Free(p)
  /\ LET r == [Idle EXCEPT !.kind = "lookup", !.ident = ident]
         id == FindByRef(apps, ident)
     IN IF id # 0 THEN Reply(p, r, LookupReply(apps, id))
        ELSE Goto(p, r, "lookupPhone")
  /\ UNCHANGED <<apps, nextId, admins, now, sent, changes, lastIssued>>

LookupPhone(p) ==
  /\ rq[p].kind = "lookup" /\ rq[p].pc = "lookupPhone"
  /\ Reply(p, rq[p], LookupReply(apps, FindByPhone(apps, rq[p].ident)))
  /\ UNCHANGED <<apps, nextId, admins, now, sent, changes, lastIssued>>

UnknownRef == RefText(0, <<0, 0, 0>>)
UnknownPhone == "p0"
Idents(tbl) ==
  {RefIdent(r) : r \in {tbl[i].ref_number : i \in DOMAIN tbl} \cup {UnknownRef}}
  \cup {PhoneIdent(ph) : ph \in {tbl[i].phone : i \in DOMAIN tbl} \cup {UnknownPhone}}

Lookup(p) ==
  \/ \E ident \in Idents(apps) : LookupBegin(p, ident)
  \/ LookupPhone(p)

---------------------------------------------------------------------------
(* The admin router: express serves a request with the first registered     *)
(* route whose method and path pattern match; none of the handlers below    *)
(* passes the request on (next() is never called).                          *)

Route(method, path, handler) == [method |-> method, path |-> path, handler |-> handler]

\* router.METHOD(path, authenticateToken, handler), in registration order
Routes ==
  << Route("POST", <<"login">>, "login"),
     Route("POST", <<"logout">>, "logout"),
     Route("GET", <<"dashboard", "stats">>, "stats"),
     Route("GET", <<"applications">>, "list"),
     Route("GET", <<"applications", ":id">>, "getOne"),
     Route("PUT", <<"applications", ":id">>, "update"),
     Route("DELETE", <<"applications", ":id">>, "delete"),
     Route("POST", <<"applications", "bulk-update">>, "bulkUpdate"),
     Route("DELETE", <<"applications", "bulk-delete">>, "bulkDelete"),
     Route("GET", <<"applications", "export">>, "export"),
     Route("POST", <<"applications", ":id", "send-email">>, "sendEmail") >>

\* a path pattern matches segment by segment; :id matches any segment
Matches(route, method, path) ==
  /\ route.method = method
  /\ Len(route.path) = Len(path)
  /\ \A k \in 1..Len(path) : route.path[k] = ":id" \/ route.path[k] = path[k]

\* The handler that serves a request
Handler(method, path) ==
  LET ks == {k \in 1..Len(Routes) : Matches(Routes[k], method, path)}
  IN IF ks = {} THEN "none"
     ELSE Routes[CHOOSE k \in ks : \A j \in ks : k <= j].handler

---------------------------------------------------------------------------
(* POST /api/admin/login *)

\* Faulty variant of compareSync: the password is compared with itself
compareSyncSelf(password, row) == password = password

\* bcrypt.compareSync(password, admin.password_hash)
compareSync(password, row) == password = row.password

LoginBegin(p, username, password) ==
  /\ Free(p)
  /\ LET r == [Idle EXCEPT !.kind = "login", !.user = username, !.pass = password]
     IN IF username = "" \/ password = "" THEN Reply(p, r, Resp(400, "MISSING_CREDENTIALS"))
        ELSE IF username \notin DOMAIN admins \/ ~compareSync(password, admins[username])
        THEN Reply(p, r, Resp(401, "INVALID_CREDENTIALS"))
        ELSE Goto(p, [r EXCEPT !.ts = now], "lastLogin")
  /\ UNCHANGED <<apps, nextId, admins, now, sent, changes, lastIssued>>

LoginLastLogin(p) ==
  /\ rq[p].kind = "login" /\ rq[p].pc = "lastLogin"
  /\ admins' = [admins EXCEPT ![rq[p].user].last_login = rq[p].ts]
  /\ Reply(p, rq[p], RespBody(200, "", <<rq[p].user>>))
  /\ UNCHANGED <<apps, nextId, now, sent, changes, lastIssued>>

Usernames == {"admin", "ghost", ""}
Passwords == {"hudt2026admin", "wrong", ""}

Login(p) ==
  \/ \E username \in Usernames, password \in Passwords : LoginBegin(p, username, password)
  \/ LoginLastLogin(p)

---------------------------------------------------------------------------
(* PUT /api/admin/applications/:id *)

\* JavaScript truthiness of a body field
\* VALID_STATUSES of utils/validators.js: the statuses the handlers name and
\* the review stage between them
VALID_STATUSES ==
  {"Submitted", "Under Review", "Audition Scheduled", "Accepted", "Waitlisted", "Not Selected"}

Truthy(v) == v \notin {"#undefined", "#null", ""}

templateType(status) ==
  IF status = "Audition Scheduled" THEN "audition_scheduled"
  ELSE IF status = "Accepted" THEN "accepted"
  ELSE IF status = "Waitlisted" THEN "waitlisted"
  ELSE IF status = "Not Selected" THEN "not_selected"
  ELSE ""

\* Faulty variant of StatusChanged: the status of the body is not compared
\* with the stored one
StatusGiven(status, row) == Truthy(status)

\* if (updates.status && updates.status !== app.status)
StatusChanged(status, row) == Truthy(status) /\ status # row.status

\* fetch the row, build the history to store, pick the e-mail template
UpdateBegin(p, id, status) ==
  /\ Free(p)
  /\ LET r == [Idle EXCEPT !.kind = "update", !.id = id, !.status = status]
     IN IF id \notin DOMAIN apps THEN Reply(p, r, Resp(404, "NOT_FOUND"))
        ELSE LET app == apps[id]
                 changed == StatusChanged(status, app)
                 statusHistory == IF changed
                                  THEN Append(app.status_history, HistoryEntry(status, now, Admin))
                                  ELSE app.status_history
                 tmpl == IF changed THEN templateType(status) ELSE ""
                 r2 == [r EXCEPT !.ts = now, !.hist = statusHistory, !.tmpl = tmpl,
                                 !.email = app.email]
             IN Goto(p, r2, IF tmpl # "" THEN "notify" ELSE "write")
  /\ UNCHANGED <<apps, nextId, admins, now, sent, changes, lastIssued>>

UpdateNotify(p) ==
  /\ rq[p].kind = "update" /\ rq[p].pc = "notify"
  /\ sent' = sent \cup {Mail(rq[p].id, rq[p].email, rq[p].tmpl)}
  /\ \E outcome \in MailOutcomes :
       IF Throws(outcome) THEN Reply(p, Logged(rq[p], outcome), Resp(500, "SERVER_ERROR"))
       ELSE Goto(p, Logged(rq[p], outcome), "write")
  /\ UNCHANGED <<apps, nextId, admins, now, changes, lastIssued>>

\* updateData applied to a row
UpdateData(row, status, ts, statusHistory) ==
  [row EXCEPT !.updated_at = ts, !.status_history = statusHistory,
              !.status = IF status # "#undefined" THEN status ELSE @]

\* history variable: one more status-changing request applied to row id
Changed(id, before, after) ==
  changes' = [changes EXCEPT ![id] = IF before.status # after.status THEN @ + 1 ELSE @]

\* .update(updateData).eq('id', id).select().single(); an error is thrown
UpdateWrite(p) ==
  /\ rq[p].kind = "update" /\ rq[p].pc = "write"
  /\ LET r == rq[p]
     IN IF r.id \notin DOMAIN apps \/ NotNullViolation(r.status)
        THEN /\ Reply(p, r, Resp(500, "SERVER_ERROR"))
             /\ UNCHANGED <<apps, changes>>
        ELSE LET row == UpdateData(apps[r.id], r.status, r.ts, r.hist)
             IN /\ apps' = Put(apps, r.id, row)
                /\ Changed(r.id, apps[r.id], row)
                /\ Reply(p, r, RespBody(200, "", <<row.status>>))
  /\ UNCHANGED <<nextId, admins, now, sent, lastIssued>>

\* updates.status of a request body: absent, null, the empty string, a
\* string that is no status, the status of intake and the statuses that
\* have an e-mail template
StatusInputs ==
  {"#undefined", "#null", "", "Archived", "Submitted",
   "Audition Scheduled", "Accepted", "Waitlisted", "Not Selected"}

\* ids a request may name: the stored ones and one that is not stored
IdInputs == DOMAIN apps \cup {nextId}

Update(p) ==
  \/ \E id \in IdInputs, status \in StatusInputs : UpdateBegin(p, id, status)
  \/ UpdateNotify(p)
  \/ UpdateWrite(p)

---------------------------------------------------------------------------
(* POST /api/admin/applications/bulk-update *)

\* Lists of at most two ids, repeats included
IdLists(ids) == {<<>>} \cup {<<a>> : a \in ids} \cup {<<a, b>> : a \in ids, b \in ids}

\* the loop's next iteration, or the response after the last one
BulkAdvance(p, r) ==
  IF r.i < Len(r.ids) THEN Goto(p, [r EXCEPT !.i = r.i + 1], "bulkRead")
  ELSE Reply(p, r, RespBody(200, "", <<Len(r.ids)>>))

\* validation; with no status in the body the loop does nothing
BulkUpdateBegin(p, ids, status) ==
  /\ Free(p)
  /\ LET r == [Idle EXCEPT !.kind = "bulkUpdate", !.ids = ids, !.status = status, !.ts = now]
     IN IF ids = <<>> THEN Reply(p, r, Resp(400, "INVALID_INPUT"))
        ELSE IF ~Truthy(status) THEN Reply(p, r, RespBody(200, "", <<Len(ids)>>))
        ELSE Goto(p, [r EXCEPT !.i = 1, !.snap = apps], "bulkRead")
  /\ UNCHANGED <<apps, nextId, admins, now, sent, changes, lastIssued>>

\* select('status_history').eq('id', id).single(), then history.push
BulkUpdateRead(p) ==
  /\ rq[p].kind = "bulkUpdate" /\ rq[p].pc = "bulkRead"
  /\ LET r == rq[p]
         id == r.ids[r.i]
     IN IF id \in DOMAIN apps
        THEN Goto(p, [r EXCEPT !.hist = Append(apps[id].status_history,
                                               HistoryEntry(r.status, r.ts, Admin))],
                  "bulkWrite")
        ELSE BulkAdvance(p, r)
  /\ UNCHANGED <<apps, nextId, admins, now, sent, changes, lastIssued>>

\* Faulty variant of BulkData: the history is left out of the written columns
BulkDataNoHistory(row, status, ts, history) ==
  [row EXCEPT !.status = status, !.updated_at = ts]

\* the row bulk update writes
BulkData(row, status, ts, history) ==
  [row EXCEPT !.status = status, !.updated_at = ts, !.status_history = history]

\* update({status, updated_at, status_history}).eq('id', id); the result is not read
BulkUpdateWrite(p) ==
  /\ rq[p].kind = "bulkUpdate" /\ rq[p].pc = "bulkWrite"
  /\ LET r == rq[p]
         id == r.ids[r.i]
     IN /\ IF id \in DOMAIN apps
           THEN LET row == BulkData(apps[id], r.status, r.ts, r.hist)
                IN apps' = Put(apps, id, row) /\ Changed(id, apps[id], row)
           ELSE UNCHANGED <<apps, changes>>
        /\ BulkAdvance(p, [r EXCEPT !.hist = <<>>])
  /\ UNCHANGED <<nextId, admins, now, sent, lastIssued>>

BulkStatusInputs == {"", "Submitted", "Accepted", "Archived"}

BulkUpdate(p) ==
  \/ \E ids \in IdLists(IdInputs), status \in BulkStatusInputs : BulkUpdateBegin(p, ids, status)
  \/ BulkUpdateRead(p)
  \/ BulkUpdateWrite(p)

---------------------------------------------------------------------------
(* DELETE /api/admin/applications/:id and /bulk-delete *)

DeleteBegin(p, id) ==
  /\ Free(p)
  /\ LET r == [Idle EXCEPT !.kind = "delete", !.id = id]
     IN IF id \notin DOMAIN apps THEN Reply(p, r, Resp(404, "NOT_FOUND"))
        ELSE Goto(p, r, "delete")
  /\ UNCHANGED <<apps, nextId, admins, now, sent, changes, lastIssued>>

DeleteRow(p) ==
  /\ rq[p].kind = "delete" /\ rq[p].pc = "delete"
  /\ apps' = Drop(apps, rq[p].id)
  /\ changes' = Drop(changes, rq[p].id)
  /\ Reply(p, rq[p], Resp(200, ""))
  /\ UNCHANGED <<nextId, admins, now, sent, lastIssued>>

BulkDeleteBegin(p, ids) ==
  /\ Free(p)
  /\ LET r == [Idle EXCEPT !.kind = "bulkDelete", !.ids = ids]
     IN IF ids = <<>> THEN Reply(p, r, Resp(400, "INVALID_INPUT"))
        ELSE Goto(p, [r EXCEPT !.i = 1], "bulkDelete")
  /\ UNCHANGED <<apps, nextId, admins, now, sent, changes, lastIssued>>

\* the loop of bulk delete, one delete query for each id (never reached:
\* see BulkDeleteRequest)
BulkDeleteRow(p) ==
  /\ rq[p].kind = "bulkDelete" /\ rq[p].pc = "bulkDelete"
  /\ LET r == rq[p]
     IN /\ apps' = Drop(apps, r.ids[r.i])
        /\ changes' = Drop(changes, r.ids[r.i])
        /\ IF r.i < Len(r.ids) THEN Goto(p, [r EXCEPT !.i = r.i + 1], "bulkDelete")
           ELSE Reply(p, r, RespBody(200, "", <<Len(r.ids)>>))
  /\ UNCHANGED <<nextId, admins, now, sent, lastIssued>>

\* DELETE /applications/:id with a path segment that is no number:
\* .eq('id', segment) selects no row
DeleteBeginText(p, seg) ==
  /\ Free(p)
  /\ Reply(p, [Idle EXCEPT !.kind = "delete", !.seg = seg], Resp(404, "NOT_FOUND"))
  /\ UNCHANGED <<apps, nextId, admins, now, sent, changes, lastIssued>>

\* DELETE /api/admin/applications/bulk-delete, as the router serves it: the
\* route of DELETE /applications/:id is registered first and takes the
\* request, so that BulkDeleteBegin and BulkDeleteRow never run
BulkDeleteHandler == Handler("DELETE", <<"applications", "bulk-delete">>)

BulkDeleteRequest(p) ==
  IF BulkDeleteHandler = "bulkDelete"
  THEN \E ids \in IdLists(IdInputs) : BulkDeleteBegin(p, ids)
  ELSE BulkDeleteHandler = "delete" /\ DeleteBeginText(p, "bulk-delete")

Delete(p) ==
  \/ \E id \in IdInputs : DeleteBegin(p, id)
  \/ DeleteRow(p)
  \/ BulkDeleteRequest(p)

---------------------------------------------------------------------------
(* GET /api/admin/applications/:id and /export *)

\* select('*').eq('id', id).single(): the application, or 404
GetOneBegin(p, id) ==
  /\ Free(p)
  /\ LET r == [Idle EXCEPT !.kind = "getOne", !.id = id]
     IN IF id \notin DOMAIN apps THEN Reply(p, r, Resp(404, "NOT_FOUND"))
        ELSE Reply(p, r, RespBody(200, "", <<apps[id]>>))
  /\ UNCHANGED <<apps, nextId, admins, now, sent, changes, lastIssued>>

\* GET /applications/:id with a path segment that is no number:
\* .eq('id', segment) ends in a query error, answered 404
GetOneBeginText(p, seg) ==
  /\ Free(p)
  /\ Reply(p, [Idle EXCEPT !.kind = "getOne", !.seg = seg], Resp(404, "NOT_FOUND"))
  /\ UNCHANGED <<apps, nextId, admins, now, sent, changes, lastIssued>>

Quote == "\""

\* A text is a sequence of characters.  text.replace(/"/g, '""')
RECURSIVE Escape(_)
Escape(text) ==
  IF text = <<>> THEN <<>>
  ELSE (IF Head(text) = Quote THEN <<Quote, Quote>> ELSE <<Head(text)>>) \o Escape(Tail(text))

\* `"${text.replace(/"/g, '""')}"`
Quoted(text) == <<Quote>> \o Escape(text) \o <<Quote>>

\* Array.prototype.join(sep): the items with sep between them
RECURSIVE Join(_, _)
Join(items, sep) ==
  IF items = <<>> THEN <<>>
  ELSE IF Len(items) = 1 THEN items
  ELSE <<Head(items), sep>> \o Join(Tail(items), sep)

\* if (value && value !== 'All') query = query.eq(column, value)
IsFilter(value) == Truthy(value) /\ value # "All"

\* The rows the export query selects
Matching(tbl, query) ==
  {i \in DOMAIN tbl :
     /\ IsFilter(query.status) => tbl[i].status = query.status
     /\ IsFilter(query.department) => tbl[i].department = query.department
     /\ IsFilter(query.level) => tbl[i].level = query.level}

\* .order('submitted_at', {ascending: false}): the ids in an order the query
\* may return them in (rows of one submission time in any order)
Orderings(tbl, ids) ==
  {f \in [1..Cardinality(ids) -> ids] :
     /\ \A j \in DOMAIN f, k \in DOMAIN f : j # k => f[j] # f[k]
     /\ \A j \in DOMAIN f, k \in DOMAIN f :
          j < k => tbl[f[j]].submitted_at >= tbl[f[k]].submitted_at}

CsvHeaders ==
  <<"RefNumber", "Name", "Email", "Phone", "Department", "Level", "Talents",
    "Status", "Rating", "Submitted", "Notes">>

\* One line of the CSV, cell by cell (row.join(',') puts the commas between
\* the cells; admin_notes null is the empty text)
CsvRow(app) ==
  <<app.ref_number, Quoted(app.full_name), app.email, app.phone, app.department,
    app.level, <<Quote>> \o Join(app.talents, ", ") \o <<Quote>>, app.status,
    app.rating, app.submitted_at, Quoted(app.admin_notes)>>

\* The export handler: the query, then the CSV, line by line
ExportBegin(p, query) ==
  /\ Free(p)
  /\ \E order \in Orderings(apps, Matching(apps, query)) :
       LET rows == [k \in DOMAIN order |-> CsvRow(apps[order[k]])]
       IN Reply(p, [Idle EXCEPT !.kind = "export", !.query = query],
                RespBody(200, "", <<CsvHeaders>> \o rows))
  /\ UNCHANGED <<apps, nextId, admins, now, sent, changes, lastIssued>>

ExportHandler == Handler("GET", <<"applications", "export">>)

\* query parameters of an export request
Queries ==
  [status : {"#undefined", "All", "Accepted"}, department : {"#undefined", "Music"},
   level : {"All", "100"}]

\* GET /api/admin/applications/export, as the router serves it: the route
\* of GET /applications/:id is registered first and takes the request, so
\* that ExportBegin never runs
ExportRequest(p) ==
  IF ExportHandler = "export" THEN \E query \in Queries : ExportBegin(p, query)
  ELSE ExportHandler = "getOne" /\ GetOneBeginText(p, "export")

Get(p) ==
  \/ \E id \in IdInputs : GetOneBegin(p, id)
  \/ ExportRequest(p)

---------------------------------------------------------------------------
Next ==
  \/ Tick
  \/ \E p \in Procs : Intake(p)
  \/ \E p \in Procs : Lookup(p)
  \/ \E p \in Procs : Login(p)
  \/ \E p \in Procs : Update(p)
  \/ \E p \in Procs : BulkUpdate(p)
  \/ \E p \in Procs : Delete(p)
  \/ \E p \in Procs : Get(p)

Spec == Init /\ [][Next]_vars

\* Requests served one at a time: none starts while another is in flight
Solo(p) == \A q \in Procs \ {p} : rq[q].pc \in {"idle", "done"}

SeqNext ==
  \/ Tick
  \/ \E p \in Procs : Solo(p) /\ Intake(p)
  \/ \E p \in Procs : Solo(p) /\ Lookup(p)
  \/ \E p \in Procs : Solo(p) /\ Login(p)
  \/ \E p \in Procs : Solo(p) /\ Update(p)
  \/ \E p \in Procs : Solo(p) /\ BulkUpdate(p)
  \/ \E p \in Procs : Solo(p) /\ Delete(p)
  \/ \E p \in Procs : Solo(p) /\ Get(p)

SeqSpec == Init /\ [][SeqNext]_vars

---------------------------------------------------------------------------
(* The export handler served directly, as it would be were its route        *)
(* registered before that of GET /applications/:id                          *)

\* Columns of a row that only the export reads: what intake stored and the
\* admins wrote since (PUT writes status, adminNotes and rating)
Profiles ==
  { [department |-> "Music", level |-> "100", status |-> "Submitted",
     talents |-> <<>>, rating |-> 0],
    [department |-> "Music", level |-> "200", status |-> "Accepted",
     talents |-> <<"Singing", "Dance">>, rating |-> 4],
    [department |-> "Drama", level |-> "100", status |-> "Accepted",
     talents |-> <<"Acting">>, rating |-> 0] }

\* Full name and admin notes of a row, character by character
NameAndNotes ==
  { [name |-> <<"a">>, notes |-> <<>>],
    [name |-> <<Quote>>, notes |-> <<"a", Quote, Quote, "b">>],
    [name |-> <<"a", Quote, "b">>, notes |-> <<Quote>>] }

\* The row with its export columns
ExportRow(row, profile, text, ts) ==
  [full_name |-> text.name, admin_notes |-> text.notes, submitted_at |-> ts] @@ profile @@ row

ExportRowsOf(i) ==
  {ExportRow(SeedRow(i), profile, text, ts) :
     profile \in Profiles, text \in NameAndNotes, ts \in 0..MaxClock}

ExportTables ==
  {<< >>} \cup {OneRow(1, r) : r \in ExportRowsOf(1)}
          \cup {Put(OneRow(1, r1), 2, r2) : r1 \in ExportRowsOf(1), r2 \in ExportRowsOf(2)}

ExportInit ==
  /\ apps \in ExportTables
  /\ nextId = 3
  /\ changes = [i \in DOMAIN apps |-> 0]
  /\ lastIssued = [y \in Years |-> IF y = 0 THEN 2 ELSE 0]
  /\ admins = DefaultAdmins
  /\ now = MaxClock
  /\ sent = {}
  /\ rq = [p \in Procs |-> Idle]

ExportNext == \E p \in Procs, query \in Queries : ExportBegin(p, query)

ExportSpec == ExportInit /\ [][ExportNext]_vars

---------------------------------------------------------------------------
(* Claims *)

Stored == DOMAIN apps
Intakes == {p \in Procs : rq[p].kind = "intake"}

\* The largest numeric suffix among the stored reference numbers of a year
MaxSuffix(tbl, year) ==
  LET ns == {parseInt(r.seq) : r \in RefsOfYear(tbl, year)}
  IN IF ns = {} THEN 0 ELSE CHOOSE n \in ns : \A m \in ns : m <= n

\* C1: with requests served one at a time, the reference number an intake
\* has just been allocated carries the suffix that follows the numerically
\* largest stored suffix of its year (001 when the year has no application),
\* whatever the applications of other years.
C1_SequentialAllocation ==
  \A p \in Intakes : rq[p].pc = "insert" =>
    rq[p].ref = RefText(rq[p].year,
                        padStart(toString(MaxSuffix(apps, rq[p].year) + 1), PadWidth))

\* C2: with requests served one at a time, the reference number an intake
\* has just been allocated has a suffix of exactly three digits and is the
\* reference number of no stored application.
C2_FreshThreeDigitRef ==
  \A p \in Intakes : rq[p].pc = "insert" =>
    /\ Len(rq[p].ref.seq) = PadWidth
    /\ \A i \in Stored : apps[i].ref_number # rq[p].ref

\* A stored application, other than the request's own row, holds the
\* request's email or phone
Duplicate(tbl, r) ==
  \E i \in DOMAIN tbl : i # r.id /\ (tbl[i].email = r.email \/ tbl[i].phone = r.phone)

\* C3: a step of a validated intake, taken while a stored application holds
\* its email or phone, inserts nothing, and when it ends the request the
\* response is 409 (every interleaving of requests).
C3_DuplicateAnswered409 ==
  [][\A p \in Procs :
       ( /\ rq'[p].kind = "intake" /\ rq'[p] # rq[p]
         /\ rq[p].pc \in {"idle", "checkPhone", "genRef", "insert"}
         /\ rq'[p].resp.status # 400
         /\ Duplicate(apps, rq'[p]) )
       => /\ apps' = apps
          /\ rq'[p].pc = "done" => rq'[p].resp.status = 409]_vars

\* C4: no two stored applications share an email, a phone or a reference
\* number (every interleaving of requests).
C4_UniqueColumns ==
  \A i \in Stored, j \in Stored :
    i # j => /\ apps[i].email # apps[j].email
             /\ apps[i].phone # apps[j].phone
             /\ apps[i].ref_number # apps[j].ref_number

\* C4 witness: an insert was refused by a UNIQUE constraint
C4_Witness ==
  \E p \in Intakes : rq[p].pc = "done" /\ rq[p].resp.status = 500

\* C5: the status history of a stored application holds one entry more than
\* the number of update and bulk-update requests that changed its status.
C5_HistoryLength ==
  \A i \in Stored : Len(apps[i].status_history) = 1 + changes[i]

Last(h) == h[Len(h)]

\* C6: the last entry of the status history of a stored application carries
\* its current status (every interleaving of requests).
C6_LastEntryIsStatus ==
  \A i \in Stored : /\ apps[i].status_history # <<>>
                    /\ Last(apps[i].status_history).status = apps[i].status

IsPrefix(a, b) == Len(a) <= Len(b) /\ SubSeq(b, 1, Len(a)) = a

\* C7: every step leaves the status history of an application that stays
\* stored a prefix of its status history after the step.
C7_AppendOnly ==
  [][\A i \in Stored \cap DOMAIN apps' :
       IsPrefix(apps[i].status_history, apps'[i].status_history)]_vars

Listed(ids) == {ids[k] : k \in 1..Len(ids)}
Occurrences(ids, i) == Cardinality({k \in 1..Len(ids) : ids[k] = i})

\* The step that ends bulk update p after its loop ran
BulkEnds(p) ==
  /\ rq[p].kind = "bulkUpdate" /\ rq[p].pc \in {"bulkRead", "bulkWrite"}
  /\ rq'[p].pc = "done"

\* The applications outside the list keep status, history and updated-at,
\* and no application appears or disappears
BulkFrame(r) ==
  /\ DOMAIN apps' = DOMAIN r.snap
  /\ \A i \in DOMAIN r.snap \ Listed(r.ids) :
       /\ apps'[i].status = r.snap[i].status
       /\ apps'[i].status_history = r.snap[i].status_history
       /\ apps'[i].updated_at = r.snap[i].updated_at

\* C8 as stated: served alone, a bulk update with a status has, when it
\* ends, appended exactly one entry to the history of each listed
\* application and left the others as they were when it began.
C8_BulkAppendsOne ==
  [][\A p \in Procs : BulkEnds(p) =>
       /\ BulkFrame(rq[p])
       /\ \A i \in DOMAIN rq[p].snap \cap Listed(rq[p].ids) :
            apps'[i].status_history =
              Append(rq[p].snap[i].status_history,
                     HistoryEntry(rq[p].status, rq[p].ts, Admin))]_vars

RECURSIVE Repeat(_, _)
Repeat(e, n) == IF n = 0 THEN <<>> ELSE <<e>> \o Repeat(e, n - 1)

\* C8 amended: served alone, a bulk update with a status has, when it ends,
\* appended to the history of each listed application one entry for every
\* occurrence of its id in the list, and left the others as they were.
C8_BulkAppendsPerOccurrence ==
  [][\A p \in Procs : BulkEnds(p) =>
       /\ BulkFrame(rq[p])
       /\ \A i \in DOMAIN rq[p].snap \cap Listed(rq[p].ids) :
            apps'[i].status_history =
              rq[p].snap[i].status_history
                \o Repeat(HistoryEntry(rq[p].status, rq[p].ts, Admin),
                          Occurrences(rq[p].ids, i))]_vars

\* C8 witness: a bulk update naming one application twice has ended, beside
\* an application it did not name
C8_Witness ==
  \E p \in Procs :
    /\ rq[p].kind = "bulkUpdate" /\ rq[p].pc = "done" /\ rq[p].resp.status = 200
    /\ Truthy(rq[p].status)
    /\ \E i \in Stored, j \in Stored :
         /\ Occurrences(rq[p].ids, i) = 2 /\ Len(apps[i].status_history) = 3
         /\ j \notin Listed(rq[p].ids) /\ Len(apps[j].status_history) = 1

\* Lookups by the reference number and by the phone of a stored application
\* agree, and an unknown identifier is not found
LookupAgrees ==
  /\ \A i \in Stored :
       LET byRef == statusLookup(apps, RefIdent(apps[i].ref_number))
           byPhone == statusLookup(apps, PhoneIdent(apps[i].phone))
       IN byRef = byPhone /\ byRef = RespBody(200, "", <<Projection(apps[i])>>)
  /\ \A ident \in Idents(apps) :
       (\A i \in Stored : /\ RefIdent(apps[i].ref_number) # ident
                          /\ PhoneIdent(apps[i].phone) # ident)
       => statusLookup(apps, ident).status = 404

\* The first query of a lookup is the one by reference number: the handler
\* goes on to the phone query exactly when no reference number matched
RefNumberFirst ==
  \A p \in Procs :
    rq[p].pc = "idle" /\ rq'[p].kind = "lookup"
    => (rq'[p].pc = "lookupPhone") = (FindByRef(apps, rq'[p].ident) = 0)

\* C9: for every stored application the lookup by its reference number and
\* the lookup by its phone answer 200 with the same projection, that of the
\* application; an identifier that is no stored reference number and no
\* stored phone is answered 404; the lookup queries the reference number
\* first and the phone only when no reference number matched.
C9_LookupAgrees == []LookupAgrees /\ [][RefNumberFirst]_vars

\* C9 witness: a lookup by phone was answered with an application, and one
\* by an unknown identifier with 404
C9_Witness ==
  \E p \in Procs, q \in Procs :
    /\ rq[p].kind = "lookup" /\ rq[p].pc = "done"
    /\ rq[p].ident.tag = "phone" /\ rq[p].resp.status = 200
    /\ rq[q].kind = "lookup" /\ rq[q].pc = "done" /\ rq[q].resp.status = 404

Logins == {p \in Procs : rq[p].kind = "login" /\ rq[p].pc = "done"}
WrongPassword(r) ==
  r.user \in DOMAIN admins /\ r.pass # "" /\ r.pass # admins[r.user].password
UnknownUser(r) == r.user # "" /\ r.pass # "" /\ r.user \notin DOMAIN admins

C11_MonotonicAllocation ==
  [][\A p \in Procs :
       rq[p].kind = "intake" /\ rq[p].pc = "genRef" /\ rq'[p].pc = "insert"
       => parseInt(rq'[p].ref.seq) > lastIssued[rq'[p].ref.year]]_vars

\* C12: a step of an intake that follows its insert (the confirmation e-mail,
\* the admin notification) leaves the applications table as it is, whether
\* the e-mail is delivered or fails, and when it ends the request the
\* response is 201 with the reference number of the inserted application.
C12_EmailFailureKeepsRow ==
  [][\A p \in Procs :
       ( /\ rq[p].kind = "intake" /\ rq[p].pc \in {"mailApplicant", "mailAdmin"}
         /\ rq'[p] # rq[p] )
       => /\ apps' = apps
          /\ rq'[p].pc = "done" => rq'[p].resp = RespBody(201, "", <<rq[p].ref>>)]_vars

\* C12 witness: an intake of which an e-mail failed was answered 201 and its
\* application is stored under the reference number of the response
C12_Witness ==
  \E p \in Procs :
    /\ rq[p].kind = "intake" /\ rq[p].pc = "done" /\ rq[p].mailFailed
    /\ rq[p].resp.status = 201
    /\ rq[p].id \in Stored /\ apps[rq[p].id].ref_number = rq[p].resp.body[1]

\* C13: the status of every stored application is a value of the status
\* enumeration, whatever status the bodies of the update and bulk-update
\* requests carried (every interleaving of requests).
C13_StatusInEnumeration ==
  \A i \in Stored : apps[i].status \in VALID_STATUSES

\* An export request, whichever handler served it
IsExport(r) == r.kind = "export" \/ r.seg = "export"

\* The text with every pair of quotes read as one quote; a quote that is
\* not doubled is left as a mark no text contains
RECURSIVE Undouble(_)
Undouble(text) ==
  IF text = <<>> THEN <<>>
  ELSE IF Head(text) # Quote THEN <<Head(text)>> \o Undouble(Tail(text))
  ELSE IF Len(text) >= 2 /\ text[2] = Quote THEN <<Quote>> \o Undouble(Tail(Tail(text)))
  ELSE <<"#lone">> \o Undouble(Tail(text))

\* The cell is the text between quotes, every quote of the text doubled
QuotedAs(cell, text) ==
  /\ Len(cell) >= 2 /\ cell[1] = Quote /\ cell[Len(cell)] = Quote
  /\ Undouble(SubSeq(cell, 2, Len(cell) - 1)) = text

\* The application matches the filters of the query
Matches3(app, query) ==
  /\ query.status \in {"#undefined", "All"} \/ app.status = query.status
  /\ query.department \in {"#undefined", "All"} \/ app.department = query.department
  /\ query.level \in {"#undefined", "All"} \/ app.level = query.level

\* The line of the CSV is that of the application
LineOf(line, app) ==
  /\ line[1] = app.ref_number /\ line[3] = app.email /\ line[4] = app.phone
  /\ line[8] = app.status /\ line[10] = app.submitted_at
  /\ QuotedAs(line[2], app.full_name) /\ QuotedAs(line[11], app.admin_notes)

\* C14: the response to an export request is 200 with, as first line, the
\* header row, followed by one line for each application that matches the
\* status, department and level filters of the request (a filter that is
\* absent or 'All' matches every application) and no other line, the lines
\* ordered by submission time, latest first, and in the name and notes of
\* a line every quote of the stored text doubled.
C14_ExportCsv ==
  [][\A p \in Procs :
       rq[p].pc = "idle" /\ IsExport(rq'[p])
       => LET r == rq'[p]
              csv == r.resp.body
              m == {i \in Stored : Matches3(apps[i], r.query)}
          IN /\ r.resp.status = 200
             /\ Len(csv) = 1 + Cardinality(m)
             /\ csv[1] = CsvHeaders
             /\ \E f \in [2..Len(csv) -> m] :
                  /\ \A j \in DOMAIN f, k \in DOMAIN f : j # k => f[j] # f[k]
                  /\ \A k \in DOMAIN f : LineOf(csv[k], apps[f[k]])
                  /\ \A j \in DOMAIN f, k \in DOMAIN f :
                       j < k => apps[f[j]].submitted_at >= apps[f[k]].submitted_at]_vars

\* The reference number an intake was allocated and, once it is answered
\* 201, the one it answered with
HeldRef(r) ==
  IF r.pc # "done" THEN r.ref
  ELSE IF r.resp.status = 201 THEN r.resp.body[1] ELSE NoRef

\* An intake whose insert succeeded
Inserted(r) == r.kind = "intake" /\ r.id # 0

\* No two intakes that were allocated the same reference number have both
\* their applications stored
OneHolder ==
  \A p \in Procs, q \in Procs :
    ( /\ p # q /\ Inserted(rq[p]) /\ Inserted(rq[q])
      /\ HeldRef(rq[p]) = HeldRef(rq[q]) /\ HeldRef(rq[p]) # NoRef )
    => ~(rq[p].id \in Stored /\ rq[q].id \in Stored)

\* The insert of an intake whose reference number a stored application
\* holds inserts nothing and ends the request with the 500 error response
LoserFails ==
  \A p \in Procs :
    ( /\ rq[p].kind = "intake" /\ rq[p].pc = "insert" /\ rq'[p] # rq[p]
      /\ \E i \in Stored : apps[i].ref_number = rq[p].ref )
    => /\ apps' = apps
       /\ rq'[p].pc = "done" /\ rq'[p].resp = Resp(500, "SERVER_ERROR")
       /\ rq'[p].id = 0

\* C15: of two intakes that were allocated the same reference number at
\* most one has its application stored: the insert made while the other's
\* application is stored inserts no row and ends its request with an error
\* response (every interleaving of requests).
C15_SameRefOneInsert == []OneHolder /\ [][LoserFails]_vars

\* C15 witness: two intakes with different emails and phones ran together
\* in a year without applications; both were allocated 001, one is stored
\* under it, the other was answered 500 and has no row
C15_Witness ==
  \E p \in Procs, q \in Procs :
    /\ p # q /\ Inserted(rq[p]) /\ rq[q].kind = "intake"
    /\ rq[q].pc = "done" /\ rq[q].resp.status = 500 /\ rq[q].id = 0
    /\ rq[q].email # rq[p].email /\ rq[q].phone # rq[p].phone
    /\ Stored = {rq[p].id}
    /\ apps[rq[p].id].ref_number.seq = <<0, 0, 1>>

\* Two intakes in flight hold the same allocated reference number
SameRefInFlight ==
  \E p \in Procs, q \in Procs :
    /\ p # q /\ rq[p].kind = "intake" /\ rq[q].kind = "intake"
    /\ rq[p].pc = "insert" /\ rq[q].pc = "insert" /\ rq[p].ref = rq[q].ref

NotifyingStatuses == {"Audition Scheduled", "Accepted", "Waitlisted", "Not Selected"}

\* A single update goes on to send an e-mail exactly when its status is a
\* notifying one and differs from the stored status it fetched; the e-mail
\* is then addressed to the contact address of the application
UpdateDecides ==
  \A p \in Procs :
    rq[p].pc = "idle" /\ rq'[p].kind = "update"
    => LET r == rq'[p]
           notifies == /\ r.id \in Stored /\ r.status \in NotifyingStatuses
                       /\ r.status # apps[r.id].status
       IN /\ (r.pc = "notify") = notifies
          /\ notifies => r.email = apps[r.id].email /\ r.tmpl = templateType(r.status)

\* The step after that decision hands exactly that e-mail to sendEmail
NotifySends ==
  \A p \in Procs :
    rq[p].kind = "update" /\ rq[p].pc = "notify" /\ rq'[p] # rq[p]
    => /\ sent' = sent \cup {Mail(rq[p].id, rq[p].email, rq[p].tmpl)}
       /\ rq[p].tmpl # ""

\* No other step of a single update and no step of a bulk update sends
OthersSendNothing ==
  \A p \in Procs :
    ( /\ rq'[p] # rq[p]
      /\ \/ rq'[p].kind = "bulkUpdate"
         \/ rq'[p].kind = "update" /\ rq[p].pc # "notify" )
    => sent' = sent

\* C16: a single update hands a templated e-mail for the application's
\* contact address to sendEmail exactly when the status of the request is
\* one of Audition Scheduled, Accepted, Waitlisted, Not Selected and differs
\* from the stored status; no other single update and no bulk update sends
\* an e-mail (every interleaving of requests).
C16_NotifyExactlyOnChange ==
  [][UpdateDecides /\ NotifySends /\ OthersSendNothing]_vars

\* C16 witness: a single update to a notifying status and a bulk update to
\* Accepted of a stored application were both answered 200, and the one
\* e-mail sent is that of the single update
C16_Witness ==
  \E p \in Procs, q \in Procs :
    /\ rq[p].kind = "update" /\ rq[p].pc = "done" /\ rq[p].resp.status = 200
    /\ rq[p].status \in NotifyingStatuses
    /\ rq[q].kind = "bulkUpdate" /\ rq[q].pc = "done" /\ rq[q].resp.status = 200
    /\ rq[q].status = "Accepted" /\ Listed(rq[q].ids) \cap Stored # {}
    /\ \E i \in Stored : sent = {Mail(rq[p].id, apps[i].email, templateType(rq[p].status))}

\* C17: when a single update that has sent its status-change e-mail
\* completes, the application is stored with the notified status (every
\* interleaving of requests, a failing write included).
C17_NotifiedStatusStored ==
  [][\A p \in Procs :
       ( /\ rq[p].kind = "update" /\ rq[p].pc = "write" /\ rq[p].tmpl # ""
         /\ rq'[p].pc = "done" )
       => /\ rq[p].id \in DOMAIN apps'
          /\ apps'[rq[p].id].status = rq[p].status]_vars

=============================================================================
